---- MODULE Spec2Model ----
(***************************************************************************)
(* UUID version 7 generator of userver (utils::generators).                *)
(*                                                                         *)
(* A uint64_t is a tuple of 8 bytes, most significant byte first, so that  *)
(* the 64-bit width of the clock reading and of the random draws is kept   *)
(* exactly.  A boost::uuids::uuid is a tuple of 16 bytes; data[k] of the   *)
(* source is element k + 1 of the tuple.                                   *)
(***************************************************************************)
EXTENDS Integers, Sequences, FiniteSets, TLC

\* ------------------------------------------------------------ program constants

\* static constexpr uint32_t kMaxSequenceCounterValue = 0x3FFFF
kMaxSequenceCounterValue == 262143

\* sizeof(uint64_t), the number of bytes GenerateRandomBlock takes from one draw
SizeofU64 == 8

\* ------------------------------------------------------------ bounds of the model

\* the number of calls the model follows on the one thread of Spec
MaxCalls == 4

\* the number of calls the model follows on each thread of SpecThreads
MaxThreadCalls == 2

\* the number of calls the model follows on the one thread of SpecString
MaxStringCalls == 3

\* the number of calls the model follows on each of the two generators of SpecV2
MaxV2Calls == 3

\* the number of calls the model follows on each of the two generators of
\* SpecMixed
MaxMixedCalls == 2

\* ------------------------------------------------------------ uint64_t and bytes

Zero64 == <<0, 0, 0, 0, 0, 0, 0, 0>>

\* a < b for two byte tuples of one length read as big-endian integers
LessBytes(a, b) ==
  \E i \in 1..Len(a) : a[i] < b[i] /\ \A j \in 1..(i - 1) : a[j] = b[j]

LeqBytes(a, b) == a = b \/ LessBytes(a, b)

\* ++x on a uint64_t: wraps to 0 at 2^64 - 1
Increment64(x) ==
  LET carry == {i \in 1..8 : \A j \in (i + 1)..8 : x[j] = 255}
      k == CHOOSE i \in carry : \A j \in carry : i <= j
  IN  IF \A j \in 1..8 : x[j] = 255 THEN Zero64
      ELSE [i \in 1..8 |-> IF i < k THEN x[i] ELSE IF i = k THEN x[i] + 1 ELSE 0]

\* x << 8 on a uint64_t
ShiftLeft8(x) == <<x[2], x[3], x[4], x[5], x[6], x[7], x[8], 0>>

\* x << 16 on a uint64_t: the two most significant bytes are shifted out
ShiftLeft16(x) == <<x[3], x[4], x[5], x[6], x[7], x[8], 0, 0>>

\* byte i of x counted from the most significant end
ByteAtBigEndian(x, i) == x[i + 1]

\* static_cast<uint8_t>((x >> (i * 8)) & 0xFF)
ByteAt(x, i) == x[8 - i]

Reverse8(x) == <<x[8], x[7], x[6], x[5], x[4], x[3], x[2], x[1]>>

\* the value passed on without a byte swap on any host
NoSwap(x, little_endian_host) == x

\* htobe64: a byte swap on a little-endian host, the identity on a big-endian one
htobe64(x, little_endian_host) == IF little_endian_host THEN Reverse8(x) ELSE x

\* the bytes of a uint64_t most significant first, whatever the host
ObjectBytesBigEndian(x, little_endian_host) == x

\* the bytes of a uint64_t object in memory order, as memcpy reads them
ObjectBytes(x, little_endian_host) == IF little_endian_host THEN Reverse8(x) ELSE x

\* ------------------------------------------------------------ GenerateRandomBlock

RECURSIVE FillBlock(_, _, _, _, _, _)
\* the loop of GenerateRandomBlock: `done` bytes written, i the position in
\* rnd_value, `used` the number of draws taken from generator_ so far
FillBlock(size, done, i, used, draws, block) ==
  IF done = size THEN [block |-> block, used |-> used]
  ELSE LET redraw == (i = SizeofU64)
           used2 == IF redraw THEN used + 1 ELSE used
           i2 == IF redraw THEN 0 ELSE i
       IN  FillBlock(size, done + 1, i2 + 1, used2, draws,
                     Append(block, ByteAt(draws[used2], i2)))

\* the loop drawing again as soon as the eighth byte of a draw is written
GenerateRandomBlockAhead(size, draws) ==
  [block |-> FillBlock(size, 0, 0, 1, draws, <<>>).block,
   used |-> (size \div SizeofU64) + 1]

\* GenerateRandomBlock on a span of `size` bytes; draws[k] is the k-th value
\* generator_() returns during the call
GenerateRandomBlock(size, draws) == FillBlock(size, 0, 0, 1, draws, <<>>)

\* ------------------------------------------------------------ UuidV7Generator

\* boost::uuids::uuid uuid{}
NilUuid == [k \in 1..16 |-> 0]

\* the fields of a newly constructed UuidV7Generator
NewGenerator == [prev_timestamp |-> Zero64, sequence_counter |-> 0]

\* the span uuid.data.subspan(offset) filled with `block`
WriteBlock(u, offset, block) ==
  [k \in 1..16 |-> IF k > offset THEN block[k - offset] ELSE u[k]]

\* sequence_counter_ >> shift without the cast to uint8_t
CounterByteWide(sequence_counter, two_to_shift) == sequence_counter \div two_to_shift

\* static_cast<uint8_t>(sequence_counter_ >> shift), shift given as 2^shift
CounterByte(sequence_counter, two_to_shift) ==
  (sequence_counter \div two_to_shift) % 256

\* data[6] and data[7] overwritten with the counter, data[8] left as drawn
WriteCounterHigh(u, sequence_counter) ==
  [u EXCEPT ![7] = CounterByte(sequence_counter, 16384),
            ![8] = CounterByte(sequence_counter, 64)]

\* data[6], data[7] and data[8] overwritten with the counter on the stalled branch
WriteCounter(u, sequence_counter) ==
  [u EXCEPT ![7] = CounterByte(sequence_counter, 16384),
            ![8] = CounterByte(sequence_counter, 64),
            ![9] = CounterByte(sequence_counter, 1)]

\* the guard bit left as drawn
KeepGuardBit(b) == b

\* data[6] &= 0xF7
ClearGuardBit(b) == (b \div 16) * 16 + (b % 8)

\* the counter seed read back from data[6..8] on the fresh branch
SeedCounter(u) == (u[7] % 16) * 16384 + u[8] * 64 + (u[9] % 64)

\* bytes 0..5 of the UUID: memcpy of 6 bytes from htobe64(current_timestamp << 16)
TimestampBytes(current_timestamp, little_endian_host) ==
  SubSeq(ObjectBytes(htobe64(ShiftLeft16(current_timestamp), little_endian_host),
                     little_endian_host), 1, 6)

\* bytes 0..5 as UuidV7GeneratorV2 writes them: static_cast<uint8_t> of
\* current_timestamp >> 40, >> 32, >> 24, >> 16, >> 8 and >> 0
TimestampBytesV2(current_timestamp) ==
  <<ByteAt(current_timestamp, 5), ByteAt(current_timestamp, 4),
    ByteAt(current_timestamp, 3), ByteAt(current_timestamp, 2),
    ByteAt(current_timestamp, 1), ByteAt(current_timestamp, 0)>>

\* data[6] | 0x70 without the mask
SetVersionUnmasked(b) == IF b \div 16 >= 8 THEN 240 + (b % 16) ELSE 112 + (b % 16)

\* data[6] = (data[6] & 0x0F) | 0x70
SetVersion(b) == (b % 16) + 112

\* data[8] | 0x80 without the mask
SetVariantUnmasked(b) == IF b >= 128 THEN b ELSE b + 128

\* data[8] = (data[8] & 0x3F) | 0x80
SetVariant(b) == (b % 64) + 128

\* the end of operator(): unix_ts_ms, ver and var written over the buffer
FillHeader(u, current_timestamp, little_endian_host) ==
  [k \in 1..16 |->
     IF k <= 6 THEN TimestampBytes(current_timestamp, little_endian_host)[k]
     ELSE IF k = 7 THEN SetVersion(u[7])
     ELSE IF k = 9 THEN SetVariant(u[9])
     ELSE u[k]]

\* current_timestamp < prev_timestamp_
IsStalledStrict(g, now) == LessBytes(now, g.prev_timestamp)

\* current_timestamp <= prev_timestamp_
IsStalled(g, now) == LeqBytes(now, g.prev_timestamp)

\* the comparison one too high
IsRolloverLate(sequence_counter) == sequence_counter > kMaxSequenceCounterValue + 1

\* sequence_counter_ > kMaxSequenceCounterValue
IsRollover(sequence_counter) == sequence_counter > kMaxSequenceCounterValue

\* the value of prev_timestamp_++, the timestamp before the increment
PostIncrement(prev_timestamp) == prev_timestamp

\* the value of ++prev_timestamp_, assigned to current_timestamp on a rollover
PreIncrement(prev_timestamp) == Increment64(prev_timestamp)

\* the stalled branch of operator(), rnd the result of GenerateRandomBlock
Stalled(g, now, rnd, little_endian_host) ==
  LET rollover == IsRollover(g.sequence_counter + 1)
      counter == IF rollover THEN 0 ELSE g.sequence_counter + 1
      prev == IF rollover THEN Increment64(g.prev_timestamp) ELSE g.prev_timestamp
      current_timestamp == IF rollover THEN PreIncrement(g.prev_timestamp) ELSE now
  IN  [gen |-> [prev_timestamp |-> prev, sequence_counter |-> counter],
       uuid |-> FillHeader(WriteCounter(WriteBlock(NilUuid, 8, rnd.block), counter),
                           current_timestamp, little_endian_host),
       branch |-> IF rollover THEN "rollover" ELSE "stalled",
       used |-> rnd.used]

\* the fresh branch of operator(), rnd the result of GenerateRandomBlock
Fresh(g, now, rnd, little_endian_host) ==
  LET filled == WriteBlock(NilUuid, 6, rnd.block)
      guarded == [filled EXCEPT ![7] = ClearGuardBit(filled[7])]
  IN  [gen |-> [prev_timestamp |-> now, sequence_counter |-> SeedCounter(guarded)],
       uuid |-> FillHeader(guarded, now, little_endian_host),
       branch |-> "fresh",
       used |-> rnd.used]

\* UuidV7Generator::operator(): from the generator's fields g, the clock reading
\* `now` and the values generator_() hands out, the new fields and the UUID
Generate(g, now, draws, little_endian_host) ==
  IF IsStalled(g, now)
  THEN Stalled(g, now, GenerateRandomBlock(8, draws), little_endian_host)
  ELSE Fresh(g, now, GenerateRandomBlock(10, draws), little_endian_host)

\* ------------------------------------------------------------ UuidV7GeneratorV2

\* UuidV7GeneratorV2::GenerateRandomBlock, the loop of UuidV7Generator's again
GenerateRandomBlockV2(size, draws) == FillBlock(size, 0, 0, 1, draws, <<>>)

\* the end of UuidV7GeneratorV2::operator(): unix_ts_ms byte by byte, ver, var
FillHeaderV2(u, current_timestamp) ==
  [k \in 1..16 |->
     IF k <= 6 THEN TimestampBytesV2(current_timestamp)[k]
     ELSE IF k = 7 THEN SetVersion(u[7])
     ELSE IF k = 9 THEN SetVariant(u[9])
     ELSE u[k]]

\* the stalled branch of UuidV7GeneratorV2::operator()
StalledV2(g, now, rnd) ==
  LET rollover == IsRollover(g.sequence_counter + 1)
      counter == IF rollover THEN 0 ELSE g.sequence_counter + 1
      prev == IF rollover THEN Increment64(g.prev_timestamp) ELSE g.prev_timestamp
      current_timestamp == IF rollover THEN PreIncrement(g.prev_timestamp) ELSE now
  IN  [gen |-> [prev_timestamp |-> prev, sequence_counter |-> counter],
       uuid |-> FillHeaderV2(WriteCounter(WriteBlock(NilUuid, 8, rnd.block), counter),
                             current_timestamp),
       branch |-> IF rollover THEN "rollover" ELSE "stalled",
       used |-> rnd.used]

\* the fresh branch of UuidV7GeneratorV2::operator()
FreshV2(g, now, rnd) ==
  LET filled == WriteBlock(NilUuid, 6, rnd.block)
      guarded == [filled EXCEPT ![7] = ClearGuardBit(filled[7])]
  IN  [gen |-> [prev_timestamp |-> now, sequence_counter |-> SeedCounter(guarded)],
       uuid |-> FillHeaderV2(guarded, now),
       branch |-> "fresh",
       used |-> rnd.used]

\* UuidV7GeneratorV2::operator()
GenerateV2(g, now, draws) ==
  IF IsStalled(g, now)
  THEN StalledV2(g, now, GenerateRandomBlockV2(8, draws))
  ELSE FreshV2(g, now, GenerateRandomBlockV2(10, draws))

\* ------------------------------------------------------------ inputs of the model

\* a millisecond of the present epoch, 0x01924F1A3B00
ClockM == <<0, 0, 1, 146, 79, 26, 59, 0>>

\* the last millisecond the 48-bit unix_ts_ms field can hold, 2^48 - 1
ClockMax48 == <<0, 0, 255, 255, 255, 255, 255, 255>>

\* the first millisecond the field cannot hold, 2^48
ClockOver48 == <<0, 1, 0, 0, 0, 0, 0, 0>>

\* the largest uint64_t value
ClockMax64 == <<255, 255, 255, 255, 255, 255, 255, 255>>

\* the values CurrentUnixTimestamp() returns in the model
ClockValues == {Zero64, ClockM, ClockMax48, ClockOver48, ClockMax64}

\* all bits set: the guard bit is set before masking, the seed is 0x1FFFF
DrawOnes == <<255, 255, 255, 255, 255, 255, 255, 255>>

\* a draw of distinct bytes with bit 7 of its byte 0 set: high nibble of data[6]
\* above 7 before the version is written, guard bit clear
DrawMixed == <<17, 34, 51, 68, 85, 102, 119, 148>>

\* the values generator_() returns during one call in the model
DrawSeqs == {<<DrawOnes, DrawMixed>>, <<DrawMixed, DrawOnes>>}

Threads == {"t1", "t2"}

\* a thread-local slot whose generator is not constructed yet
NoGenerator == [constructed |-> FALSE]

\* ------------------------------------------------------------ state

VARIABLES
  local_uuid7_generator,  \* per thread: NoGenerator, or the UuidV7Generator's fields
  log,                    \* per thread: the calls made, oldest first
  little_endian_host,     \* the byte order of the build
  returned,               \* per thread: the strings GenerateUuid7() returned
  filled,                 \* the last buffer handed to the block fillers, if any
  local_uuid7_generator_v2,  \* per thread: NoGenerator, or the UuidV7GeneratorV2's fields
  log_v2,                 \* per thread: the calls of GenerateBoostUuid7V2(), oldest first
  seen                    \* per thread: the calls the other thread had made when
                          \* this thread made its latest call

vars == <<local_uuid7_generator, log, little_endian_host, returned, filled,
          local_uuid7_generator_v2, log_v2, seen>>

\* one call as the log keeps it
Call(before, now, draws, r) ==
  [now |-> now, draws |-> draws, branch |-> r.branch, uuid |-> r.uuid,
   before |-> before, after |-> r.gen, used |-> r.used]

\* The start of a run: the program right after start-up
InitConstructed ==
  /\ local_uuid7_generator = [t \in Threads |-> NoGenerator]
  /\ log = [t \in Threads |-> <<>>]
  /\ little_endian_host \in BOOLEAN
  /\ returned = [t \in Threads |-> <<>>]
  /\ filled = <<>>
  /\ local_uuid7_generator_v2 = [t \in Threads |-> NoGenerator]
  /\ log_v2 = [t \in Threads |-> <<>>]
  /\ seen = [t \in Threads |-> 0]

\* the clock values a long same-millisecond burst is followed at
BurstClocks == {ClockM, ClockMax48, ClockMax64}

\* the values generator_() returns during the last call of the burst before the
\* model takes over
BurstDraws == <<DrawMixed, DrawOnes>>

\* A state inside a long burst on thread t1: the clock read `now` on a fresh call
\* (seed 0x1FFFF) and on each of the 0x1FFFF stalled calls after it, the last of
\* which is in the log.  TLC follows no behaviour of 65536 or more states, so the
\* burst is entered here, two calls before its rollover.
InitBurst ==
  /\ little_endian_host \in BOOLEAN
  /\ returned = [t \in Threads |-> <<>>]
  /\ filled = <<>>
  /\ local_uuid7_generator_v2 = [t \in Threads |-> NoGenerator]
  /\ log_v2 = [t \in Threads |-> <<>>]
  /\ seen = [t \in Threads |-> 0]
  /\ \E now \in BurstClocks :
       \E before \in {[prev_timestamp |-> now,
                       sequence_counter |-> kMaxSequenceCounterValue - 2]} :
         \E r \in {Generate(before, now, BurstDraws, little_endian_host)} :
           /\ local_uuid7_generator =
                [t \in Threads |-> IF t = "t1" THEN r.gen ELSE NoGenerator]
           /\ log = [t \in Threads |->
                       IF t = "t1" THEN <<Call(before, now, BurstDraws, r)>> ELSE <<>>]

Init == InitConstructed \/ InitBurst

\* one generator for all threads, kept in the slot of t1
UseShared(t) ==
  IF local_uuid7_generator["t1"] = NoGenerator THEN NewGenerator
  ELSE local_uuid7_generator["t1"]

\* local_uuid7_generator.Use(): the calling thread's generator, constructed on
\* first use
Use(t) ==
  IF local_uuid7_generator[t] = NoGenerator THEN NewGenerator
  ELSE local_uuid7_generator[t]

\* the calls of GenerateBoostUuid7() and GenerateUuid7() the threads other than
\* t have made so far
CallsOfOthers(t) == LET u == CHOOSE u \in Threads : u # t IN Len(log[u])

\* GenerateBoostUuid7() on thread t
GenerateBoostUuid7(t, now, draws) ==
  /\ \E r \in {Generate(Use(t), now, draws, little_endian_host)} :
       /\ local_uuid7_generator' = [local_uuid7_generator EXCEPT ![t] = r.gen]
       /\ log' = [log EXCEPT ![t] = Append(@, Call(Use(t), now, draws, r))]
  /\ seen' = [seen EXCEPT ![t] = CallsOfOthers(t)]
  /\ UNCHANGED <<little_endian_host, returned, filled,
                 local_uuid7_generator_v2, log_v2>>

\* one thread calling GenerateBoostUuid7() under every clock reading and draw
Next ==
  \E now \in ClockValues, draws \in DrawSeqs :
    /\ Len(log["t1"]) < MaxCalls
    /\ GenerateBoostUuid7("t1", now, draws)

Spec == Init /\ [][Next]_vars

\* the clock values of SpecThreads
ThreadClockValues == {Zero64, ClockM}

\* the threads calling GenerateBoostUuid7() in any interleaving
NextThreads ==
  \E t \in Threads, now \in ThreadClockValues, draws \in DrawSeqs :
    /\ Len(log[t]) < MaxThreadCalls
    /\ GenerateBoostUuid7(t, now, draws)

SpecThreads == Init /\ [][NextThreads]_vars

\* ------------------------------------------------------------ the string form

\* the digits of encoding::ToHex, by value
HexDigits ==
  <<"0", "1", "2", "3", "4", "5", "6", "7", "8", "9", "a", "b", "c", "d", "e", "f">>

\* encoding::ToHex over a range of bytes: two digits per byte, the high nibble
\* first, in the order of the bytes, nothing between them
RECURSIVE ToHex(_)
ToHex(bytes) ==
  IF bytes = <<>> THEN <<>>
  ELSE <<HexDigits[(Head(bytes) \div 16) + 1], HexDigits[(Head(bytes) % 16) + 1]>>
         \o ToHex(Tail(bytes))

\* (val.begin(), val.size() / 2): the first half of the value only
HexInputHalf(val) == SubSeq(val, 1, Len(val) \div 2)

\* (val.begin(), val.size()): the range GenerateUuid7() hands to ToHex
HexInput(val) == val

\* GenerateUuid7() on thread t: val = GenerateBoostUuid7(), then ToHex
GenerateUuid7(t, now, draws) ==
  /\ \E r \in {Generate(Use(t), now, draws, little_endian_host)} :
       /\ local_uuid7_generator' = [local_uuid7_generator EXCEPT ![t] = r.gen]
       /\ log' = [log EXCEPT ![t] = Append(@, Call(Use(t), now, draws, r))]
       /\ returned' = [returned EXCEPT ![t] = Append(@, ToHex(HexInput(r.uuid)))]
  /\ seen' = [seen EXCEPT ![t] = CallsOfOthers(t)]
  /\ UNCHANGED <<little_endian_host, filled, local_uuid7_generator_v2, log_v2>>

\* the clock values of SpecString
StringClockValues == {Zero64, ClockM}

\* one thread calling either entry point
NextString ==
  \E now \in StringClockValues, draws \in DrawSeqs :
    /\ Len(log["t1"]) < MaxStringCalls
    /\ \/ GenerateBoostUuid7("t1", now, draws)
       \/ GenerateUuid7("t1", now, draws)

SpecString == Init /\ [][NextString]_vars

\* ------------------------------------------------------------ the second variant

\* local_uuid7_generator.Use() in the second entry point: the generator of
\* GenerateBoostUuid7()
UseV2Shared(t) ==
  IF local_uuid7_generator[t] = NoGenerator THEN NewGenerator
  ELSE local_uuid7_generator[t]

\* local_uuid7_generator_v2.Use(): the calling thread's UuidV7GeneratorV2,
\* constructed on first use
UseV2(t) ==
  IF local_uuid7_generator_v2[t] = NoGenerator THEN NewGenerator
  ELSE local_uuid7_generator_v2[t]

\* GenerateBoostUuid7V2() on thread t
GenerateBoostUuid7V2(t, now, draws) ==
  /\ \E r \in {GenerateV2(UseV2(t), now, draws)} :
       /\ local_uuid7_generator_v2' = [local_uuid7_generator_v2 EXCEPT ![t] = r.gen]
       /\ log_v2' = [log_v2 EXCEPT ![t] = Append(@, Call(UseV2(t), now, draws, r))]
  /\ UNCHANGED <<local_uuid7_generator, log, little_endian_host, returned, filled,
                 seen>>

\* A state inside a long burst of both variants on thread t1, each called with
\* the clock reading `now` and the same draws as in InitBurst
InitBurstBoth ==
  /\ little_endian_host \in BOOLEAN
  /\ returned = [t \in Threads |-> <<>>]
  /\ filled = <<>>
  /\ seen = [t \in Threads |-> 0]
  /\ \E now \in BurstClocks :
       \E before \in {[prev_timestamp |-> now,
                       sequence_counter |-> kMaxSequenceCounterValue - 2]} :
         \E r \in {Generate(before, now, BurstDraws, little_endian_host)},
            r2 \in {GenerateV2(before, now, BurstDraws)} :
           /\ local_uuid7_generator =
                [t \in Threads |-> IF t = "t1" THEN r.gen ELSE NoGenerator]
           /\ log = [t \in Threads |->
                       IF t = "t1" THEN <<Call(before, now, BurstDraws, r)>> ELSE <<>>]
           /\ local_uuid7_generator_v2 =
                [t \in Threads |-> IF t = "t1" THEN r2.gen ELSE NoGenerator]
           /\ log_v2 = [t \in Threads |->
                          IF t = "t1" THEN <<Call(before, now, BurstDraws, r2)>> ELSE <<>>]

\* the clock values of SpecV2
V2ClockValues == {ClockM, ClockOver48}

\* one thread calling GenerateBoostUuid7() and GenerateBoostUuid7V2() in any order
NextV2 ==
  \E now \in V2ClockValues, draws \in DrawSeqs :
    \/ Len(log["t1"]) < MaxV2Calls /\ GenerateBoostUuid7("t1", now, draws)
    \/ Len(log_v2["t1"]) < MaxV2Calls /\ GenerateBoostUuid7V2("t1", now, draws)

SpecV2 == (InitConstructed \/ InitBurstBoth) /\ [][NextV2]_vars

\* ------------------------------------------------------------ the block fillers

\* UnbufferedWeakRandomGenerator::operator() on a buffer of `size` bytes: the
\* loop of GenerateRandomBlock, written out a second time in the benchmark
UnbufferedWeakRandomGenerator(size, draws) == FillBlock(size, 0, 0, 1, draws, <<>>)

\* UnbufferedWeakRandomGeneratorV2::operator(): one draw copied whole for each
\* full group of eight bytes, then one more draw of which the rest of the
\* buffer is copied, from the start of the object
UnbufferedWeakRandomGeneratorV2(size, draws, host_is_little_endian) ==
  LET full_blocks == size \div SizeofU64
  IN  [block |-> [k \in 1..size |->
                    ObjectBytes(draws[((k - 1) \div SizeofU64) + 1],
                                host_is_little_endian)[((k - 1) % SizeofU64) + 1]],
       used |-> full_blocks + 1]

\* a draw of distinct bytes, 0x0102030405060708
DrawLow == <<1, 2, 3, 4, 5, 6, 7, 8>>

\* the values generator_() returns while one buffer is filled
FillDraws ==
  {<<DrawMixed, DrawLow, DrawOnes>>, <<DrawLow, DrawOnes, DrawMixed>>,
   <<DrawOnes, DrawMixed, DrawLow>>, <<DrawOnes, DrawOnes, DrawOnes>>}

\* a buffer of `size` bytes filled by GenerateRandomBlock and by both fillers of
\* the benchmark from the same draws
Fill(size, draws) ==
  /\ filled' = <<[size |-> size, draws |-> draws,
                  block |-> GenerateRandomBlock(size, draws),
                  shift |-> UnbufferedWeakRandomGenerator(size, draws),
                  copy |-> UnbufferedWeakRandomGeneratorV2(size, draws,
                                                           little_endian_host)]>>
  /\ UNCHANGED <<local_uuid7_generator, log, little_endian_host, returned,
                 local_uuid7_generator_v2, log_v2, seen>>

\* buffers of 1 to 16 bytes, the size of a UUID
NextFill == \E size \in 1..16, draws \in FillDraws : Fill(size, draws)

SpecFill == Init /\ [][NextFill]_vars

\* ------------------------------------------------------------ reading a UUID back

\* bytes 0..5, the unix_ts_ms field
TimestampField(u) == SubSeq(u, 1, 6)

\* the low 48 bits of a uint64_t as six bytes, most significant first
Low48(x) == SubSeq(x, 3, 8)

\* the 18-bit counter field: low nibble of byte 6, byte 7, low 6 bits of byte 8
CounterField(u) == (u[7] % 16) * 16384 + u[8] * 64 + (u[9] % 64)

\* a uint64_t as three numbers of 16, 24 and 24 bits
Limbs(x) ==
  <<x[1] * 256 + x[2],
    x[3] * 65536 + x[4] * 256 + x[5],
    x[6] * 65536 + x[7] * 256 + x[8]>>

\* b = a + 1 without wrapping
IsPlusOne(a, b) ==
  LET la == Limbs(a)
      lb == Limbs(b)
  IN  \/ la[3] < 16777215 /\ lb = <<la[1], la[2], la[3] + 1>>
      \/ la[3] = 16777215 /\ la[2] < 16777215 /\ lb = <<la[1], la[2] + 1, 0>>
      \/ la[3] = 16777215 /\ la[2] = 16777215 /\ la[1] < 65535
           /\ lb = <<la[1] + 1, 0, 0>>

\* b = (a + 1) mod 2^64
IsPlusOneMod64(a, b) == IsPlusOne(a, b) \/ (a = ClockMax64 /\ b = Zero64)

\* the calls of thread t that the log holds, as indices
Calls(t) == 1..Len(log[t])

\* x < 2^48: the unix_ts_ms field holds x whole
Fits48(x) == x[1] = 0 /\ x[2] = 0

\* every clock reading and every prev_timestamp in the calls of `calls` is below
\* 2^48, so that no timestamp is cut to its low 48 bits
FitsField(calls) ==
  \A i \in 1..Len(calls) :
    /\ Fits48(calls[i].now)
    /\ Fits48(calls[i].before.prev_timestamp)
    /\ Fits48(calls[i].after.prev_timestamp)

\* the calls start at the construction of the generator
FromConstruction(calls) == calls # <<>> => calls[1].before = NewGenerator

\* a run from construction in which the 48-bit field cuts nothing off
PlainRun(calls) == FromConstruction(calls) /\ FitsField(calls)

\* ------------------------------------------------------------ claims

\* C1: on one generator instance every returned UUID, compared as a big-endian
\* 128-bit integer, is strictly greater than the UUID of the previous call, under
\* any clock readings and any random draws.  Stated for the runs that start at
\* construction and whose timestamps are all below 2^48, where the 48-bit field
\* cuts nothing off.
C1_StrictlyIncreasing ==
  PlainRun(log["t1"]) =>
    \A i \in Calls("t1") :
      i > 1 => LessBytes(log["t1"][i - 1].uuid, log["t1"][i].uuid)

\* C2: all UUIDs returned by sequential calls on one instance are pairwise distinct
\* and none is the nil UUID.  Stated for the runs that start at
\* construction and whose timestamps are all below 2^48.
C2_PairwiseDistinctNotNil ==
  PlainRun(log["t1"]) =>
    /\ \A i \in Calls("t1") : log["t1"][i].uuid # NilUuid
    /\ \A i \in Calls("t1") : \A j \in Calls("t1") :
         i < j => log["t1"][i].uuid # log["t1"][j].uuid

\* C3: every returned UUID, on the fresh branch, on the stalled branch and on a
\* rollover, has the high nibble of byte 6 equal to 7.
C3_VersionNibble ==
  \A i \in Calls("t1") : log["t1"][i].uuid[7] \div 16 = 7

\* a run in which a fresh call, a stalled call and a rollover have returned UUIDs,
\* the fresh one from a draw whose byte 0 has a high nibble other than 7
C3_Witness ==
  /\ \E i \in Calls("t1") :
       /\ log["t1"][i].branch = "fresh"
       /\ ByteAt(log["t1"][i].draws[1], 0) \div 16 # 7
       /\ log["t1"][i].uuid[7] \div 16 = 7
  /\ \E i \in Calls("t1") : log["t1"][i].branch = "stalled"
  /\ \E i \in Calls("t1") : log["t1"][i].branch = "rollover"

\* C4: every returned UUID, on the fresh branch, on the stalled branch and on a
\* rollover, has the top two bits of byte 8 equal to binary 10.
C4_VariantBits ==
  \A i \in Calls("t1") : log["t1"][i].uuid[9] \div 64 = 2

\* a run in which a fresh call, a stalled call and a rollover have returned UUIDs,
\* the fresh one from a draw whose byte 2 has top bits other than 10
C4_Witness ==
  /\ \E i \in Calls("t1") :
       /\ log["t1"][i].branch = "fresh"
       /\ ByteAt(log["t1"][i].draws[1], 2) \div 64 # 2
       /\ log["t1"][i].uuid[9] \div 64 = 2
  /\ \E i \in Calls("t1") :
       log["t1"][i].branch = "stalled" /\ log["t1"][i].uuid[9] \div 64 = 2
  /\ \E i \in Calls("t1") :
       log["t1"][i].branch = "rollover" /\ log["t1"][i].uuid[9] \div 64 = 2

\* the timestamp C5 says a call emits: the clock reading on the fresh branch, the
\* prev_timestamp after the call on the stalled branch
C5_Emitted(c) == IF c.branch = "fresh" THEN c.now ELSE c.after.prev_timestamp

\* C5: bytes 0..5 of every returned UUID hold the emitted timestamp (the clock
\* reading on the fresh branch, the post-call prev_timestamp on the stalled branch)
\* as a 48-bit big-endian value, the same six bytes as the byte-wise shifts give.
\* Stated for the runs that start at construction and whose timestamps are all
\* below 2^48.
C5_TimestampLayout ==
  PlainRun(log["t1"]) =>
    \A i \in Calls("t1") :
      /\ <<0, 0>> \o TimestampField(log["t1"][i].uuid) = C5_Emitted(log["t1"][i])
      /\ TimestampField(log["t1"][i].uuid)
           = TimestampBytesV2(C5_Emitted(log["t1"][i]))

\* C6: in the initial state and after every call sequence_counter is at most
\* 0x3FFFF.
C6_CounterBound ==
  /\ Use("t1").sequence_counter <= 262143
  /\ \A i \in Calls("t1") : log["t1"][i].after.sequence_counter <= 262143

\* a call has raised the counter to 0x3FFFF and the next call was made
C6_Witness ==
  \E i \in Calls("t1") :
    /\ i > 1
    /\ log["t1"][i - 1].after.sequence_counter = 262143
    /\ log["t1"][i].before.sequence_counter = 262143
    /\ log["t1"][i].after.sequence_counter <= 262143

\* C7: after every fresh-branch call bit 0x08 of byte 6 of the returned UUID is 0
\* and the stored sequence_counter lies in 0..0x1FFFF.
C7_GuardBitOnSeed ==
  \A i \in Calls("t1") :
    log["t1"][i].branch = "fresh" =>
      /\ (log["t1"][i].uuid[7] \div 8) % 2 = 0
      /\ log["t1"][i].after.sequence_counter \in 0..131071

\* a fresh call whose draw had bit 0x08 of the byte that lands in byte 6 set
C7_Witness ==
  \E i \in Calls("t1") :
    /\ log["t1"][i].branch = "fresh"
    /\ (ByteAt(log["t1"][i].draws[1], 0) \div 8) % 2 = 1
    /\ (log["t1"][i].uuid[7] \div 8) % 2 = 0
    /\ log["t1"][i].after.sequence_counter = 131071

\* a stalled-branch call made when sequence_counter is 0x3FFFF
C8_AtMaximum(c) ==
  /\ LeqBytes(c.now, c.before.prev_timestamp)
  /\ c.before.sequence_counter = 262143

\* C8 as claimed: a stalled-branch call made when sequence_counter is 0x3FFFF sets
\* the counter to 0, increases prev_timestamp by exactly 1 and returns a UUID
\* whose timestamp is the new prev_timestamp and whose counter field is 0.
C8_RolloverExact ==
  \A i \in Calls("t1") :
    C8_AtMaximum(log["t1"][i]) =>
      /\ log["t1"][i].after.sequence_counter = 0
      /\ IsPlusOne(log["t1"][i].before.prev_timestamp,
                   log["t1"][i].after.prev_timestamp)
      /\ <<0, 0>> \o TimestampField(log["t1"][i].uuid)
           = log["t1"][i].after.prev_timestamp
      /\ CounterField(log["t1"][i].uuid) = 0

\* C8 as amended: such a call sets the counter to 0, increases prev_timestamp by 1
\* modulo 2^64 and returns a UUID whose timestamp field is the new prev_timestamp
\* modulo 2^48 and whose counter field is 0.
C8_RolloverModular ==
  \A i \in Calls("t1") :
    C8_AtMaximum(log["t1"][i]) =>
      /\ log["t1"][i].after.sequence_counter = 0
      /\ IsPlusOneMod64(log["t1"][i].before.prev_timestamp,
                        log["t1"][i].after.prev_timestamp)
      /\ TimestampField(log["t1"][i].uuid)
           = Low48(log["t1"][i].after.prev_timestamp)
      /\ CounterField(log["t1"][i].uuid) = 0

\* a stalled call made at 0x3FFFF has returned, with the new prev_timestamp
\* M + 1, which fits the field, or 2^48, which does not
C8_Witness ==
  \E i \in Calls("t1") :
    /\ C8_AtMaximum(log["t1"][i])
    /\ log["t1"][i].branch = "rollover"
    /\ log["t1"][i].after.prev_timestamp \in {Increment64(ClockM), ClockOver48}

\* C9: a call that reads a clock value lower than prev_timestamp takes the stalled
\* branch and does not lower prev_timestamp, its UUID carries a timestamp at least
\* that of every earlier UUID and compares greater than the previous UUID; and no
\* call lowers prev_timestamp.  Stated for the runs that start at
\* construction and whose timestamps are all below 2^48.
C9_ClockRegression ==
  PlainRun(log["t1"]) => \A i \in Calls("t1") :
    /\ ~LessBytes(log["t1"][i].after.prev_timestamp,
                  log["t1"][i].before.prev_timestamp)
    /\ LessBytes(log["t1"][i].now, log["t1"][i].before.prev_timestamp) =>
         /\ log["t1"][i].branch # "fresh"
         /\ \A j \in 1..(i - 1) :
              ~LessBytes(TimestampField(log["t1"][i].uuid),
                         TimestampField(log["t1"][j].uuid))
         /\ i > 1 => LessBytes(log["t1"][i - 1].uuid, log["t1"][i].uuid)

\* thread t has made a call in this step
C10_Called(t) == Len(log'[t]) = Len(log[t]) + 1

\* C10: each thread has its own lazily created generator: a call on one thread
\* leaves the generator and the results of every other thread unchanged, and the
\* UUIDs returned to each thread stay strictly increasing.  Stated for the runs
\* that start at construction and whose timestamps are all below 2^48.
C10_ThreadIsolation ==
  [][\A t \in Threads :
       C10_Called(t) /\ PlainRun(log'[t]) =>
         /\ \A o \in Threads \ {t} :
              /\ local_uuid7_generator'[o] = local_uuid7_generator[o]
              /\ log'[o] = log[o]
         /\ local_uuid7_generator[t] = NoGenerator <=> log[t] = <<>>
         /\ log[t] # <<>> =>
              LessBytes(log[t][Len(log[t])].uuid, log'[t][Len(log'[t])].uuid)]_vars

\* ------------------------------------------------------------ C11

\* the value of a digit of the lower-case hexadecimal alphabet
HexValue(c) == CHOOSE v \in 0..15 : HexDigits[v + 1] = c

\* the bytes a string of hexadecimal digits stands for, two digits per byte
DecodeHex(text) ==
  [k \in 1..(Len(text) \div 2) |-> HexValue(text[2 * k - 1]) * 16 + HexValue(text[2 * k])]

\* the characters 0-9 and a-f
LowerHexChars == {HexDigits[v] : v \in 1..16}

\* C11: a call of GenerateUuid7() makes exactly one call of the generator and
\* returns its 16 bytes as exactly 32 characters, each one of 0-9a-f (so no
\* dash, no brace, no upper case), two per byte in the order of the bytes:
\* decoding the string gives the 16 bytes back.  The string is never empty and
\* never shorter than 32.
C11_StringForm ==
  [][\A t \in Threads :
       returned'[t] # returned[t] =>
         /\ Len(returned'[t]) = Len(returned[t]) + 1
         /\ SubSeq(returned'[t], 1, Len(returned[t])) = returned[t]
         /\ Len(log'[t]) = Len(log[t]) + 1
         /\ SubSeq(log'[t], 1, Len(log[t])) = log[t]
         /\ LET text == returned'[t][Len(returned'[t])]
                val == log'[t][Len(log'[t])].uuid
            IN  /\ Len(val) = 16
                /\ Len(text) = 32
                /\ text # <<>>
                /\ \A k \in 1..Len(text) : text[k] \in LowerHexChars
                /\ DecodeHex(text) = val
                /\ \A k \in 1..16 :
                     /\ HexValue(text[2 * k - 1]) = val[k] \div 16
                     /\ HexValue(text[2 * k]) = val[k] % 16]_vars

\* C11 witness: GenerateUuid7() has returned twice, once a string with a letter
\* and a figure in it, after a call of GenerateBoostUuid7() on the same thread
C11_Witness ==
  /\ Len(returned["t1"]) = 2
  /\ Len(log["t1"]) = 3
  /\ \E k \in 1..32 : returned["t1"][1][k] = "f"
  /\ \E k \in 1..32 : returned["t1"][1][k] = "9"
  /\ returned["t1"][1] # returned["t1"][2]

\* ------------------------------------------------------------ C12

\* bytes 0..9 of a UUID: timestamp, version, counter, variant
Top80(u) == SubSeq(u, 1, 10)

\* C12: on return from every call, the top 80 bits of the returned UUID are, as a
\* big-endian number, at least the top 80 bits of every UUID the same generator
\* returned before.  Stated for the runs that start at construction with all
\* timestamps below 2^48.
C12_Top80Ordered ==
  PlainRun(log["t1"]) =>
    \A i \in Calls("t1") : \A j \in 1..(i - 1) :
      LeqBytes(Top80(log["t1"][j].uuid), Top80(log["t1"][i].uuid))

\* ------------------------------------------------------------ C13

\* the largest seed a fresh call stores: every drawn bit set, guard bit cleared
BurstSeed ==
  Fresh(NewGenerator, ClockM, GenerateRandomBlock(10, <<DrawOnes, DrawOnes>>),
        TRUE).gen.sequence_counter

\* the calls of the shortest run from construction to a state of InitBurst: the
\* fresh call and the stalled calls that take the counter from BurstSeed to
\* kMaxSequenceCounterValue - 1
BurstCalls == 1 + (kMaxSequenceCounterValue - 1 - BurstSeed)

\* the number of calls made on the generator up to and including calls[i]
CallNumber(calls, i) ==
  IF calls[1].before = NewGenerator THEN i ELSE BurstCalls + i - 1

\* x + k on a uint64_t
RECURSIVE Plus64(_, _)
Plus64(x, k) == IF k = 0 THEN x ELSE Plus64(Increment64(x), k - 1)

\* the timestamp of the UUID of call c is at most k above the clock reading of c
DriftAtMost(c, k) ==
  \/ LeqBytes(<<0, 0>> \o TimestampField(c.uuid), c.now)
  \/ \E j \in 1..k : <<0, 0>> \o TimestampField(c.uuid) = Plus64(c.now, j)

\* no call reads a clock value below the one the call before it read
ClockNeverBack(calls) ==
  \A i \in 2..Len(calls) : LeqBytes(calls[i - 1].now, calls[i].now)

\* C13 as stated: after N back-to-back calls on one generator, the timestamp of
\* the UUID of the N-th call exceeds the clock reading of that call by at most
\* N / 2^18.  Back-to-back is read as: the clock does not move backward between
\* the calls.
C13_DriftBound ==
  ClockNeverBack(log["t1"]) =>
    \A i \in Calls("t1") :
      DriftAtMost(log["t1"][i], CallNumber(log["t1"], i) \div 262144)

\* C13 amended: while the clock never moves backward, after N calls on one
\* generator since its construction the timestamp of the UUID of the N-th call
\* exceeds the clock reading of that call by at most N / 2^17.
C13_DriftBoundHalf ==
  ClockNeverBack(log["t1"]) =>
    \A i \in Calls("t1") :
      DriftAtMost(log["t1"][i], CallNumber(log["t1"], i) \div 131072)

\* C13 witness: a burst at one clock value M has rolled over on call number
\* 0x20002, whose UUID carries M + 1
C13_Witness ==
  /\ ClockNeverBack(log["t1"])
  /\ \E i \in Calls("t1") :
       /\ log["t1"][i].branch = "rollover"
       /\ log["t1"][i].now = ClockM
       /\ CallNumber(log["t1"], i) = 131074
       /\ <<0, 0>> \o TimestampField(log["t1"][i].uuid) = Increment64(ClockM)

\* ------------------------------------------------------------ C14

\* every call of `calls`, and every call made before them since construction,
\* read the one clock value M, with 0 < M and M + 1 below 2^48
FrozenClock(calls) ==
  /\ calls # <<>>
  /\ calls[1].now # Zero64
  /\ \A i \in 1..Len(calls) : calls[i].now = calls[1].now
  /\ calls[1].before \in {NewGenerator,
                          [prev_timestamp |-> calls[1].now,
                           sequence_counter |-> kMaxSequenceCounterValue - 2]}
  /\ Fits48(calls[1].now) /\ Fits48(Increment64(calls[1].now))

\* the seed of the fresh call the burst began with
SeedOfBurst(calls) ==
  IF calls[1].before = NewGenerator THEN calls[1].after.sequence_counter
  ELSE BurstSeed

\* C14: on a new generator with the clock frozen at M > 0, whatever the draws,
\* the first UUID carries timestamp M, the UUIDs are strictly increasing, and
\* with seed s the first UUID that carries M + 1 is that of the
\* (0x3FFFF - s + 1)-th stalled call after the fresh call.
C14_StalledBurst ==
  LET calls == log["t1"] IN
  FrozenClock(calls) =>
    /\ calls[1].before = NewGenerator =>
         calls[1].branch = "fresh" /\ TimestampField(calls[1].uuid) = Low48(calls[1].now)
    /\ \A i \in 2..Len(calls) : LessBytes(calls[i - 1].uuid, calls[i].uuid)
    /\ \A i \in 1..Len(calls) :
         (/\ TimestampField(calls[i].uuid) = Low48(Increment64(calls[1].now))
          /\ \A j \in 1..(i - 1) :
               TimestampField(calls[j].uuid) # Low48(Increment64(calls[1].now)))
         <=> CallNumber(calls, i) - 1 = 262143 - SeedOfBurst(calls) + 1

\* ------------------------------------------------------------ C15

\* sixteen values of a byte each
IsUuid16(u) == Len(u) = 16 /\ \A k \in 1..16 : u[k] \in 0..255

C16_BranchSelection ==
  \A i \in Calls("t1") :
    LET c == log["t1"][i] IN
    /\ c.branch = "fresh" <=> LessBytes(c.before.prev_timestamp, c.now)
    /\ c.now = c.before.prev_timestamp => c.branch \in {"stalled", "rollover"}
    /\ (c.before = NewGenerator /\ c.now = Zero64) =>
         /\ c.branch = "stalled"
         /\ TimestampField(c.uuid) = <<0, 0, 0, 0, 0, 0>>
         /\ CounterField(c.uuid) = 1
         /\ c.after = [prev_timestamp |-> Zero64, sequence_counter |-> 1]

\* C16 witness: the first call of a new generator read 0, a later call read a
\* greater value, and the call after that read that same value again
C16_Witness ==
  /\ Len(log["t1"]) >= 3
  /\ log["t1"][1].before = NewGenerator /\ log["t1"][1].now = Zero64
  /\ log["t1"][2].now = ClockM /\ log["t1"][2].branch = "fresh"
  /\ log["t1"][3].now = ClockM /\ log["t1"][3].branch = "stalled"

\* ------------------------------------------------------------ C17

\* what C17 says of a call c that read a clock value above prev_timestamp, but
\* for the timestamp of its UUID: prev_timestamp becomes the reading, and the
\* new counter is the one read from the UUID, the same for every such call with
\* the same draws whatever the counter was before
C17_FreshState(calls, c) ==
  /\ c.branch = "fresh"
  /\ c.after.prev_timestamp = c.now
  /\ c.after.sequence_counter = CounterField(c.uuid)
  /\ \A j \in 1..Len(calls) :
       (calls[j].branch = "fresh" /\ calls[j].draws = c.draws) =>
         calls[j].after.sequence_counter = c.after.sequence_counter

\* C17 as stated: a call that reads now_ms > prev_timestamp sets prev_timestamp
\* to now_ms and returns a UUID whose timestamp is now_ms exactly, also after the
\* logical timestamp had run ahead; the old counter has no influence on the new.
C17_FreshExact ==
  \A i \in Calls("t1") :
    LET c == log["t1"][i] IN
    LessBytes(c.before.prev_timestamp, c.now) =>
      /\ C17_FreshState(log["t1"], c)
      /\ <<0, 0>> \o TimestampField(c.uuid) = c.now

\* C17 amended: as above, with the timestamp of the UUID equal to now_ms modulo
\* 2^48, which is now_ms itself for now_ms < 2^48.
C17_FreshModular ==
  \A i \in Calls("t1") :
    LET c == log["t1"][i] IN
    LessBytes(c.before.prev_timestamp, c.now) =>
      /\ C17_FreshState(log["t1"], c)
      /\ TimestampField(c.uuid) = Low48(c.now)
      /\ Fits48(c.now) => <<0, 0>> \o TimestampField(c.uuid) = c.now

\* C17 witness: a rollover at clock value M took prev_timestamp to M + 1, ahead
\* of the clock, and the next call read a greater value
C17_Witness ==
  \E i \in Calls("t1") :
    /\ i > 1
    /\ log["t1"][i - 1].branch = "rollover"
    /\ log["t1"][i - 1].now = ClockM
    /\ log["t1"][i].before.prev_timestamp = Increment64(ClockM)
    /\ log["t1"][i].now = ClockMax48
    /\ log["t1"][i].branch = "fresh"

\* ------------------------------------------------------------ C18

\* C18: a call that reads a clock value not above prev_timestamp while
\* sequence_counter is below 0x3FFFF increases sequence_counter by exactly 1,
\* leaves prev_timestamp as it was, and returns a UUID whose timestamp is that
\* prev_timestamp, not the lower clock reading.  Stated for the runs that start
\* at construction with all timestamps below 2^48.
C18_StalledNoRollover ==
  PlainRun(log["t1"]) =>
    \A i \in Calls("t1") :
      LET c == log["t1"][i] IN
      (LeqBytes(c.now, c.before.prev_timestamp)
         /\ c.before.sequence_counter < kMaxSequenceCounterValue) =>
        /\ c.after.sequence_counter = c.before.sequence_counter + 1
        /\ c.after.prev_timestamp = c.before.prev_timestamp
        /\ <<0, 0>> \o TimestampField(c.uuid) = c.before.prev_timestamp

\* ------------------------------------------------------------ C19

\* the position in `calls` of the last fresh call before calls[i], 0 if none
LastFresh(calls, i) ==
  LET fresh == {j \in 1..(i - 1) : calls[j].branch = "fresh"}
  IN  IF fresh = {} THEN 0 ELSE CHOOSE j \in fresh : \A k \in fresh : k <= j

\* calls[i] is a stalled-branch call that follows a fresh call, calls[f] or for
\* f = 0 the one an InitBurst run began with, with no rollover in between
AfterSeed(calls, i, f) ==
  /\ calls[i].branch # "fresh"
  /\ f > 0 \/ calls[1].before # NewGenerator
  /\ \A k \in (f + 1)..(i - 1) : calls[k].branch = "stalled"

\* the seed that fresh call stored
SeedBefore(calls, f) ==
  IF f > 0 THEN calls[f].after.sequence_counter ELSE BurstSeed

\* the number of stalled-branch calls since that fresh call, calls[i] included
StalledSince(calls, i, f) ==
  IF f > 0 THEN i - f ELSE CallNumber(calls, i) - 1

\* C19: a fresh call leaves at least 0x20000 increments between the seed and
\* 0x3FFFF; each of the first 0x20000 stalled-branch calls after a fresh call
\* keeps prev_timestamp; after the seed 0x1FFFF the stalled-branch call number
\* 0x20001 is the rollover.
C19_RolloverHeadroom ==
  \A calls \in {log["t1"]} : \A i \in 1..Len(calls) :
    \A c \in {calls[i]}, f \in {LastFresh(calls, i)} :
        /\ c.branch = "fresh" =>
             kMaxSequenceCounterValue - c.after.sequence_counter >= 131072
        /\ (AfterSeed(calls, i, f) /\ StalledSince(calls, i, f) <= 131072) =>
             /\ c.branch = "stalled"
             /\ c.after.prev_timestamp = c.before.prev_timestamp
             /\ c.after.sequence_counter = SeedBefore(calls, f) + StalledSince(calls, i, f)
        /\ (AfterSeed(calls, i, f) /\ SeedBefore(calls, f) = 131071
              /\ StalledSince(calls, i, f) = 131073) =>
             /\ c.branch = "rollover"
             /\ c.after.prev_timestamp = Increment64(c.before.prev_timestamp)

\* C19 witness: after the seed 0x1FFFF, stalled call number 0x20000 has kept
\* prev_timestamp and stalled call number 0x20001 has rolled over
C19_Witness ==
  \E i \in Calls("t1") :
       /\ i > 1
       /\ LastFresh(log["t1"], i) = 0
       /\ AfterSeed(log["t1"], i, 0)
       /\ SeedBefore(log["t1"], 0) = 131071
       /\ StalledSince(log["t1"], i, 0) = 131073
       /\ StalledSince(log["t1"], i - 1, 0) = 131072
       /\ log["t1"][i - 1].branch = "stalled"
       /\ log["t1"][i].branch = "rollover"

\* ------------------------------------------------------------ C20

\* ((r & 0x07) << 14) + (((r >> 8) & 0xFF) << 6) + ((r >> 16) & 0x3F)
SeedOfDraw(r) == (r[8] % 8) * 16384 + r[7] * 64 + (r[6] % 64)

\* C20: a fresh call whose first draw is r stores the counter
\* ((r & 0x07) << 14) + (((r >> 8) & 0xFF) << 6) + ((r >> 16) & 0x3F), which is
\* the counter field read from bytes 6..8 of the returned UUID, guard bit clear;
\* when the draw is 0xFFFFFFFFFFFFFFFF byte 6 is 0x77 and the counter 0x1FFFF.
C20_SeedDerivation ==
  \A i \in Calls("t1") :
    LET c == log["t1"][i] IN
    c.branch = "fresh" =>
      /\ c.after.sequence_counter = SeedOfDraw(c.draws[1])
      /\ c.after.sequence_counter = CounterField(c.uuid)
      /\ (c.uuid[7] \div 8) % 2 = 0
      /\ c.draws[1] = DrawOnes =>
           c.uuid[7] = 119 /\ c.after.sequence_counter = 131071

\* C20 witness: one fresh call drew 0xFFFFFFFFFFFFFFFF first, another a value of
\* distinct bytes, on a generator whose counter was not 0
C20_Witness ==
  \E i, j \in Calls("t1") :
    /\ log["t1"][i].branch = "fresh" /\ log["t1"][i].draws[1] = DrawOnes
    /\ log["t1"][j].branch = "fresh" /\ log["t1"][j].draws[1] = DrawMixed
    /\ log["t1"][j].before.sequence_counter # 0
    /\ log["t1"][j].after.sequence_counter = 73190

\* ------------------------------------------------------------ C21

\* C21: in every UUID a stalled-branch call returns, with the counter as the
\* call leaves it, the low nibble of byte 6 is counter bits 17..14, byte 7 is
\* counter bits 13..6 and the low 6 bits of byte 8 are counter bits 5..0; byte 8
\* is the variant and those 6 bits whatever was drawn for it.
C21_StalledCounterLayout ==
  \A i \in Calls("t1") :
    \A c \in {log["t1"][i]} :
      c.branch # "fresh" =>
        /\ c.uuid[7] % 16 = (c.after.sequence_counter \div 16384) % 16
        /\ c.uuid[8] = (c.after.sequence_counter \div 64) % 256
        /\ c.uuid[9] % 64 = c.after.sequence_counter % 64
        /\ c.uuid[9] = 128 + (c.after.sequence_counter % 64)

\* C21 witness: a stalled call at counter 0x3FFFF, where every counter bit is 1,
\* a rollover to counter 0, and a stalled call that drew 0x94 for byte 8 and
\* returned another value there
C21_Witness ==
  \E i, j, k \in Calls("t1") :
    /\ log["t1"][i].branch = "stalled"
    /\ log["t1"][i].after.sequence_counter = kMaxSequenceCounterValue
    /\ log["t1"][j].branch = "rollover"
    /\ log["t1"][k].branch = "stalled"
    /\ log["t1"][k].draws[1] = DrawMixed
    /\ log["t1"][k].uuid[9] # 148
    /\ log["t1"][k].uuid[9] % 64 # 148 % 64

\* ------------------------------------------------------------ C22

\* (d >> (j * 8)) & 0xFF
ShiftedByte(d, j) == d[8 - j]

\* C22: on a block of N bytes, 1 <= N <= 16, GenerateRandomBlock sets byte k of
\* the block to (d >> ((k mod 8) * 8)) & 0xFF, d the first draw for k < 8 and
\* the second for k >= 8; the byte-shift filler of the benchmark does the same.
C22_BlockByteOrder ==
  \A n \in 1..Len(filled) :
    \A f \in {filled[n]} :
      /\ Len(f.block.block) = f.size
      /\ \A k \in 0..(f.size - 1) :
           f.block.block[k + 1] =
             ShiftedByte(f.draws[IF k < 8 THEN 1 ELSE 2], k % 8)
      /\ f.shift.block = f.block.block

\* C22 witness: a block of 16 bytes was filled from two draws of distinct bytes
C22_Witness ==
  /\ filled # <<>>
  /\ filled[1].size = 16
  /\ filled[1].draws[1] = DrawMixed
  /\ filled[1].draws[2] = DrawLow
  /\ filled[1].block.block[1] = 148
  /\ filled[1].block.block[9] = 8
  /\ filled[1].block.block[16] = 1

\* ------------------------------------------------------------ C23

\* byte j of d and byte 7 - j of d are equal for the bytes 0..size-1 a buffer
\* takes from d
Mirrored(d, size) == \A j \in 0..(size - 1) : d[8 - j] = d[j + 1]

\* C23: for every buffer length 1..16 and the same draws, the memcpy filler
\* writes the bytes the byte-shift filler writes when the host stores a
\* uint64_t little-endian; when it stores it big-endian the two buffers are the
\* same only if every draw reads the same from both ends over the bytes taken
\* from it, and differ otherwise.
C23_FillersAgree ==
  \A n \in 1..Len(filled) :
    \A f \in {filled[n]} :
      /\ Len(f.copy.block) = f.size /\ Len(f.shift.block) = f.size
      /\ little_endian_host =>
           \A k \in 1..f.size : f.copy.block[k] = f.shift.block[k]
      /\ ~little_endian_host =>
           ((\A k \in 1..f.size : f.copy.block[k] = f.shift.block[k])
              <=> /\ Mirrored(f.draws[1], IF f.size < 8 THEN f.size ELSE 8)
                  /\ f.size > 8 => Mirrored(f.draws[2], f.size - 8))

\* C23 witness: on a big-endian host the two fillers wrote different bytes into
\* a buffer of 16 bytes
C23_Witness ==
  /\ filled # <<>>
  /\ ~little_endian_host
  /\ filled[1].size = 16
  /\ filled[1].copy.block[1] = 17 /\ filled[1].shift.block[1] = 148
  /\ filled[1].copy.block # filled[1].shift.block

\* ------------------------------------------------------------ C24

\* ceil(n / 8)
DrawsNeeded(n) == (n + 7) \div 8

\* C24 as stated: on a block of more than 8 bytes, 9 <= N <= 16,
\* GenerateRandomBlock takes more draws than the ceil(N / 8) whose bytes it
\* writes into the block.
C24_DrawAhead ==
  \A n \in 1..Len(filled) :
    filled[n].size \in 9..16 =>
      filled[n].block.used > DrawsNeeded(filled[n].size)

\* C24 amended: on a block of N bytes, 1 <= N <= 16, GenerateRandomBlock takes
\* exactly ceil(N / 8) draws, one for N <= 8 and two for 9 <= N <= 16, and the
\* last byte of the block comes from the last draw taken: no draw is taken
\* ahead of need.
C24_NoDrawAhead ==
  \A n \in 1..Len(filled) :
    \A f \in {filled[n]} :
      /\ f.block.used = DrawsNeeded(f.size)
      /\ f.block.used = (IF f.size <= 8 THEN 1 ELSE 2)
      /\ f.block.block[f.size] = f.draws[f.block.used][8 - ((f.size - 1) % 8)]

\* C24 witness: a block of 10 bytes, the size the fresh branch asks for, was
\* filled from two draws
C24_Witness ==
  /\ filled # <<>>
  /\ filled[1].size = 10
  /\ filled[1].block.used = 2
  /\ filled[1].draws = <<DrawLow, DrawOnes, DrawMixed>>

\* ------------------------------------------------------------ C25

\* the clock reading and the draws of every call of `calls` up to the i-th
Inputs(calls, i) == [j \in 1..i |-> <<calls[j].now, calls[j].draws>>]

\* C25: when both variants start from the same state and their first i calls
\* read the same clock values and draw the same values, call i returns the same
\* 16 bytes from both, on the same branch, and leaves the same prev_timestamp
\* and sequence_counter in both, for clock values below and above 2^48.
C25_VariantsAgree ==
  \A a \in {log["t1"]}, b \in {log_v2["t1"]} :
    \A i \in 1..Len(a) :
      (i <= Len(b) /\ a[1].before = b[1].before /\ Inputs(a, i) = Inputs(b, i)) =>
        /\ a[i].uuid = b[i].uuid
        /\ a[i].after = b[i].after
        /\ a[i].branch = b[i].branch

\* C25 witness: both variants went through the same rollover from 2^48 - 1 to
\* 2^48 and returned the same UUID, with timestamp field 0
C25_Witness ==
  /\ Len(log["t1"]) = 3 /\ Len(log_v2["t1"]) = 3
  /\ Inputs(log["t1"], 3) = Inputs(log_v2["t1"], 3)
  /\ log["t1"][1].before = log_v2["t1"][1].before
  /\ log["t1"][3].branch = "rollover" /\ log_v2["t1"][3].branch = "rollover"
  /\ log["t1"][3].after.prev_timestamp = ClockOver48
  /\ log_v2["t1"][3].uuid = log["t1"][3].uuid
  /\ TimestampField(log_v2["t1"][3].uuid) = <<0, 0, 0, 0, 0, 0>>

\* ------------------------------------------------------------ C26

\* the bit positions <<byte, bit>> at which two UUIDs differ
DifferingBits(u, v) ==
  {p \in (1..16) \X (0..7) :
     (u[p[1]] \div (2 ^ p[2])) % 2 # (v[p[1]] \div (2 ^ p[2])) % 2}

\* the UUID call c would have returned had every draw of it been d
UuidDrawing(c, d) == Generate(c.before, c.now, <<d, d>>, little_endian_host).uuid

\* C26 as stated: the UUID of a stalled-branch call has 62 bit positions that
\* change with the draws, the UUID of a fresh call 62 + 12 = 74.  The positions
\* that change are those where the UUIDs for all bits drawn 1 and all bits
\* drawn 0 differ; the UUID returned differs from these two nowhere else.
C26_RandomBits ==
  \A i \in Calls("t1") :
    \A c \in {log["t1"][i]} :
    \A ones \in {UuidDrawing(c, DrawOnes)}, zeros \in {UuidDrawing(c, Zero64)} :
    \A bits \in {DifferingBits(ones, zeros)} :
      /\ DifferingBits(c.uuid, ones) \subseteq bits
      /\ Cardinality(bits) = (IF c.branch = "fresh" THEN 74 ELSE 62)

\* C26 amended: the UUID of a stalled-branch call has 56 bit positions that
\* change with the draws (bytes 9..15; byte 8 is variant and counter), the UUID
\* of a fresh call 73 (bytes 6..15 without the version, the guard bit and the
\* variant).
C26_RandomBitsCounted ==
  \A i \in Calls("t1") :
    \A c \in {log["t1"][i]} :
    \A ones \in {UuidDrawing(c, DrawOnes)}, zeros \in {UuidDrawing(c, Zero64)} :
    \A bits \in {DifferingBits(ones, zeros)} :
      /\ DifferingBits(c.uuid, ones) \subseteq bits
      /\ Cardinality(bits) = (IF c.branch = "fresh" THEN 73 ELSE 56)
      /\ bits = {p \in (1..16) \X (0..7) :
                   \/ p[1] >= 10
                   \/ c.branch = "fresh" /\ p[1] = 7 /\ p[2] <= 2
                   \/ c.branch = "fresh" /\ p[1] = 8
                   \/ c.branch = "fresh" /\ p[1] = 9 /\ p[2] <= 5}

\* C26 witness: a fresh call and a stalled call have returned, with draws that
\* are neither all ones nor all zeros
C26_Witness ==
  \E i, k \in Calls("t1") :
    /\ log["t1"][i].branch = "stalled" /\ log["t1"][i].draws[1] = DrawMixed
    /\ log["t1"][k].branch = "fresh" /\ log["t1"][k].draws[1] = DrawMixed

\* ------------------------------------------------------------ C27

\* call c2 is the first call of thread u, made after call i of thread t
FirstCallAfter(t, i, u) ==
  /\ t # u
  /\ Len(log[u]) = 1
  /\ i \in 1..Len(log[t])
  /\ i <= seen[u]

\* C27: nothing orders the UUIDs of two threads.  When a thread makes its first
\* call after a fresh call of another thread and reads the same clock value M,
\* with 0 < M < 2^48, it starts from a new generator of its own, and its UUID
\* compares smaller than the earlier one of the other thread whenever it draws
\* the smaller seed.
C27_NoInterThreadOrder ==
  \A t \in Threads, u \in Threads : \A i \in 1..Len(log[t]) :
    FirstCallAfter(t, i, u) =>
      \A c1 \in {log[t][i]}, c2 \in {log[u][1]} :
        (/\ c1.now = c2.now /\ c2.now # Zero64 /\ Fits48(c2.now)
         /\ c1.branch = "fresh"
         /\ SeedOfDraw(c2.draws[1]) < SeedOfDraw(c1.draws[1]))
        => /\ c2.before = NewGenerator
           /\ c2.branch = "fresh"
           /\ LessBytes(c2.uuid, c1.uuid)

\* C27 witness: thread t1 made a fresh call at clock value M, thread t2 made its
\* first call after it at the same clock value, and the UUID of t2 is the smaller
C27_Witness ==
  /\ FirstCallAfter("t1", 1, "t2")
  /\ log["t1"][1].branch = "fresh"
  /\ log["t1"][1].now = ClockM /\ log["t2"][1].now = ClockM
  /\ log["t1"][1].draws[1] = DrawOnes /\ log["t2"][1].draws[1] = DrawMixed
  /\ LessBytes(log["t2"][1].uuid, log["t1"][1].uuid)

\* ------------------------------------------------------------ C28

\* C28: while the clock stays at M, with 0 < M and M + 1 below 2^48, the
\* timestamp of the UUIDs only grows: it is one more than that of the UUID
\* before on a rollover, which comes exactly when the counter is at 0x3FFFF,
\* and the same as before on every other call; prev_timestamp is never lowered
\* and never set back to the clock value it is ahead of.
C28_Runaway ==
  \A calls \in {log["t1"]} :
    FrozenClock(calls) =>
      \A i \in 2..Len(calls) :
        \A c \in {calls[i]}, ts \in {TimestampField(calls[i].uuid)},
           before \in {TimestampField(calls[i - 1].uuid)} :
          /\ ~LessBytes(c.after.prev_timestamp, c.before.prev_timestamp)
          /\ LessBytes(c.now, c.before.prev_timestamp) =>
               c.after.prev_timestamp # c.now
          /\ c.branch = "rollover" <=>
               c.before.sequence_counter = kMaxSequenceCounterValue
          /\ c.branch = "rollover" =>
               /\ c.after.prev_timestamp = Increment64(c.before.prev_timestamp)
               /\ IsPlusOne(<<0, 0>> \o before, <<0, 0>> \o ts)
          /\ c.branch # "rollover" =>
               /\ c.after.prev_timestamp = c.before.prev_timestamp
               /\ ts = before

\* ------------------------------------------------------------ C29

\* C29: after every call, on either branch, the 18-bit counter field of the
\* returned UUID is the stored sequence_counter and bytes 0..5 are the stored
\* prev_timestamp modulo 2^48.  Stated for the runs that start at construction
\* with all timestamps below 2^48.
C29_OutputMirrorsState ==
  PlainRun(log["t1"]) =>
    \A i \in Calls("t1") :
      \A c \in {log["t1"][i]} :
        /\ CounterField(c.uuid) = c.after.sequence_counter
        /\ TimestampField(c.uuid) = Low48(c.after.prev_timestamp)

\* ------------------------------------------------------------ C30

\* bytes 0..8 of a UUID: timestamp, version, counter high bits, variant, counter
\* low bits
Prefix72(u) == SubSeq(u, 1, 9)

\* C30: for two successive calls on one generator whose timestamps are below
\* 2^48, bytes 0..8 of the later UUID are strictly greater than bytes 0..8 of
\* the earlier one, whatever bytes 9..15 are.  Stated for the runs that start at
\* construction.
C30_PrefixCarriesOrder ==
  PlainRun(log["t1"]) =>
    \A i \in 2..Len(log["t1"]) :
      LessBytes(Prefix72(log["t1"][i - 1].uuid), Prefix72(log["t1"][i].uuid))

\* ------------------------------------------------------------ C31

\* C31: for every call with timestamps below 2^48, the timestamp of the
\* returned UUID is not below the clock value that call read, and it is the
\* prev_timestamp the call leaves behind.  Stated for the runs that start at
\* construction.
C31_NeverLagsClock ==
  PlainRun(log["t1"]) =>
    \A i \in Calls("t1") :
      \A c \in {log["t1"][i]}, ts \in {TimestampField(log["t1"][i].uuid)} :
        /\ LeqBytes(Low48(c.now), ts)
        /\ ts = Low48(c.after.prev_timestamp)

\* ------------------------------------------------------------ C32

\* the calls i..k of `calls` all carry the timestamp of call i
SameTimestampRun(calls, i, k) ==
  \A j \in i..k : TimestampField(calls[j].uuid) = TimestampField(calls[i].uuid)

\* C32: under any clock behaviour the UUIDs of one generator that carry one
\* timestamp value are emitted one after the other, and through such a run the
\* 18-bit counter only goes up, so that the run has at most 0x40000 UUIDs.
\* Stated for the runs in which no timestamp is cut to 48 bits.
C32_TimestampRuns ==
  \A calls \in {log["t1"]} :
    FitsField(calls) =>
      \A i \in 1..Len(calls), k \in 1..Len(calls) :
        (i < k /\ TimestampField(calls[i].uuid) = TimestampField(calls[k].uuid))
          => /\ SameTimestampRun(calls, i, k)
             /\ CounterField(calls[i].uuid) < CounterField(calls[k].uuid)

\* ------------------------------------------------------------ C33

\* C33: GenerateUuid7() and GenerateBoostUuid7() on one thread work on the same
\* prev_timestamp and sequence_counter: each call, through either entry point,
\* starts from the state the call before it left; the results of all the calls
\* together are strictly increasing, the strings taken as the bytes they
\* decode to, and two successive strings of GenerateUuid7() differ.  Stated for
\* the runs that start at construction with all timestamps below 2^48 and use
\* both entry points.
C33_SharedGenerator ==
  \A calls \in {log["t1"]}, strings \in {returned["t1"]} :
    (PlainRun(calls) /\ Len(strings) \in 1..(Len(calls) - 1)) =>
      /\ \A i \in 2..Len(calls) :
           /\ calls[i].before = calls[i - 1].after
           /\ LessBytes(calls[i - 1].uuid, calls[i].uuid)
      /\ \A i \in 2..Len(strings) :
           /\ strings[i - 1] # strings[i]
           /\ LessBytes(DecodeHex(strings[i - 1]), DecodeHex(strings[i]))

\* ------------------------------------------------------------ C35

\* C35: a call on the fresh branch takes exactly two values from generator_()
\* and a call on the stalled branch, with or without rollover, exactly one;
\* bytes 9..15 of a UUID of the stalled branch are bytes 1..7 of that one value,
\* byte 0 being its lowest.
C35_DrawsPerCall ==
  \A i \in Calls("t1") :
    \A c \in {log["t1"][i]} :
      /\ c.branch = "fresh" => c.used = 2
      /\ c.branch # "fresh" =>
           /\ c.used = 1
           /\ \A k \in 9..15 : c.uuid[k + 1] = ShiftedByte(c.draws[1], k - 8)

\* a fresh call, a stalled call and a rollover call are in the log, the last two
\* with a value whose bytes 1..7 all differ
C35_Witness ==
  /\ Len(log["t1"]) = 4
  /\ log["t1"][2].branch = "stalled" /\ log["t1"][2].used = 1
  /\ log["t1"][3].branch = "rollover" /\ log["t1"][3].used = 1
  /\ log["t1"][3].draws[1] = DrawMixed
  /\ SubSeq(log["t1"][3].uuid, 10, 16) = <<119, 102, 85, 68, 51, 34, 17>>
  /\ log["t1"][4].branch = "fresh" /\ log["t1"][4].used = 2

\* ------------------------------------------------------------ C34

\* the clock values of SpecMixed
MixedClockValues == {Zero64, ClockM}

\* one thread that calls GenerateBoostUuid7() first and from then on both entry
\* points in any order: every call of GenerateBoostUuid7V2() comes after the
\* first call of GenerateBoostUuid7()
NextMixed ==
  \E now \in MixedClockValues, draws \in DrawSeqs :
    \/ Len(log["t1"]) < MaxMixedCalls /\ GenerateBoostUuid7("t1", now, draws)
    \/ /\ log["t1"] # <<>>
       /\ Len(log_v2["t1"]) < MaxMixedCalls
       /\ GenerateBoostUuid7V2("t1", now, draws)

SpecMixed == InitConstructed /\ [][NextMixed]_vars

\* the state the latest call of `calls` left, or that of a new generator
LeftBy(calls) == IF calls = <<>> THEN NewGenerator ELSE calls[Len(calls)].after

\* C34: GenerateBoostUuid7V2() works on a generator of its own: a call of it
\* starts from the state the V2 call before it left (a new generator on the
\* first one), whatever GenerateBoostUuid7() did in between, and leaves the
\* prev_timestamp and sequence_counter of GenerateBoostUuid7() as they were;
\* and the same with the two entry points exchanged.
C34_SeparateState ==
  [][\A t \in Threads :
       /\ log_v2'[t] # log_v2[t] =>
            /\ local_uuid7_generator'[t] = local_uuid7_generator[t]
            /\ log'[t] = log[t]
            /\ \A c \in {log_v2'[t][Len(log_v2'[t])]} :
                 /\ c.before = LeftBy(log_v2[t])
                 /\ c.after = local_uuid7_generator_v2'[t]
       /\ log'[t] # log[t] =>
            /\ local_uuid7_generator_v2'[t] = local_uuid7_generator_v2[t]
            /\ log_v2'[t] = log_v2[t]
            /\ \A c \in {log'[t][Len(log'[t])]} :
                 /\ c.before = LeftBy(log[t])
                 /\ c.after = local_uuid7_generator'[t]
  ]_vars

\* C34 witness: GenerateBoostUuid7() returned a UUID with timestamp M and
\* counter 0x1FFFF; GenerateBoostUuid7V2(), called after it at the same clock
\* reading, started from a new generator and returned a UUID with the smaller
\* counter 73190, which compares below the earlier one; the two generators
\* hold different counters
C34_Witness ==
  /\ log["t1"] # <<>> /\ log_v2["t1"] # <<>>
  /\ log["t1"][1].now = ClockM /\ log["t1"][1].draws[1] = DrawOnes
  /\ log_v2["t1"][1].now = ClockM /\ log_v2["t1"][1].draws[1] = DrawMixed
  /\ log_v2["t1"][1].before = NewGenerator
  /\ LessBytes(log_v2["t1"][1].uuid, log["t1"][1].uuid)
  /\ Len(log["t1"]) = 1 /\ Len(log_v2["t1"]) = 1
  /\ local_uuid7_generator["t1"].sequence_counter = 131071
  /\ local_uuid7_generator_v2["t1"].sequence_counter = 73190
====
